---- MODULE Spec2Model ----
(***************************************************************************)
(* ChewyTask: the scheduling and dispatch engine.                          *)
(*   chewy_task/executor.py   BaseExecutor (lazy pool, submit, shutdown)   *)
(*   chewy_task/task.py       Task.run, Task.delay, TaskEntry.is_due       *)
(*   chewy_task/schedules.py  IntervalSchedule                             *)
(*   chewy_task/scheduler.py  Scheduler (registry, tick, run, shutdown)    *)
(*   chewy_task/app.py        ChewyTask (start, shutdown, submit_task)     *)
(* Threads: the caller (Main) issues the public operations; each call of   *)
(* Scheduler.run occupies one loop slot.  CPython may switch threads       *)
(* between any two statements, so an operation is cut into steps at the    *)
(* reads and writes of shared fields; the position of a thread is pc[t].   *)
(* Time is counted in half time units: Cap = 2 is the 1.0 cap of tick().   *)
(***************************************************************************)
EXTENDS Integers, Sequences, FiniteSets, TLC

\* ------------------------------------------------------------ bounds
MaxLoops == 2
MaxEntries == 2
MaxTime == 3
MaxPools == 2
MaxFutures == 3
MaxCalls == 3
MaxSubmitFailures == 1
MaxQueued == 2

\* ------------------------------------------------------------ constants
\* None: last_run_at before the first dispatch, _executor before start.
None == -1
\* tick() never sleeps longer than 1.0 time unit (two half units).
Cap == 2
\* the intervals of the schedules callers construct (0.5 and 1.5 time units)
Intervals == {1, 3}
\* the values callers pass to IntervalSchedule(interval=...)
IntervalArgs == Intervals \cup {0, -1}
\* the items code outside puts on the instant queue
QueueItems == {1, 2}

Main == 0
Loops == 1..MaxLoops
Threads == {Main} \cup Loops

VARIABLES
    executor_pool,      \* BaseExecutor._executor: None or the id of a pool
    pools,              \* pool id -> "open" | "shut", every pool ever created
    futures,            \* what the pools accepted: [kind, entry, pool, st]
    scheduled_entries,  \* Scheduler.scheduled_entries, in insertion order
    instant_queue,      \* Scheduler.instant_queue
    running,            \* Scheduler.running
    started,            \* ChewyTask._started
    backend,            \* "none": ChewyTask._scheduler is None; else the executor kind
    now,                \* time.time()
    pc,                 \* thread -> position
    ret,                \* thread -> the call Executor.submit / shutdown returns to
    tick,               \* loop -> locals of tick() and run(), and what the tick did
    wake_at,            \* loop -> when time.sleep(sleep_time) returns
    wait_pool,          \* thread -> the pool whose shutdown(wait=True) it is in
    calls,              \* public calls the caller has made
    fail_budget,        \* submissions an open backend may still refuse
    call_running,       \* Scheduler.running when the caller's pending instant call began
    exec_shutdown_done, \* a call of Executor.shutdown has returned
    sched_shutdown_seen,\* Scheduler.shutdown has been called
    shutdown_returned,  \* calls of Scheduler.shutdown that have returned (0, 1, 2 = more)
    run_entered,        \* a thread entered run() while the caller's shutdown is pending
    last_call           \* how the caller's last call ended: "returned", "raised",
                        \* "future" (a handle was returned), "not_bound" (delay
                        \* raised for want of an application), "ValueError"
                        \* (IntervalSchedule refused its interval), or "pending"

vars == <<executor_pool, pools, futures, scheduled_entries, instant_queue, running,
          started, backend, now, pc, ret, tick, wake_at, wait_pool, calls,
          fail_budget, call_running, exec_shutdown_done, sched_shutdown_seen,
          shutdown_returned, run_entered, last_call>>

\* the fields of the executor, the scheduler and the application
objVars == <<executor_pool, pools, futures, scheduled_entries, instant_queue, running,
             started, backend>>

\* ------------------------------------------------------------ helpers
Min(a, b) == IF a <= b THEN a ELSE b

\* TaskEntry.__init__: a fresh entry has never run
TaskEntry(interval) == [interval |-> interval, last_run_at |-> None]

\* only a negative interval is refused
IntervalScheduleNonNegative(interval) == interval >= 0

\* IntervalSchedule.__init__ accepts only interval > 0
IntervalSchedule(interval) == interval > 0

\* is_due with the test remaining < 0: an entry is not due at its very due time
is_due_strict(entry, t) ==
    IF entry.last_run_at = None
    THEN <<TRUE, entry.interval>>
    ELSE LET next_run == entry.last_run_at + entry.interval
             remaining == next_run - t
         IN  IF remaining < 0 THEN <<TRUE, entry.interval>> ELSE <<FALSE, remaining>>

\* TaskEntry.is_due at time t: <<due, remaining>>
is_due(entry, t) ==
    IF entry.last_run_at = None
    THEN <<TRUE, entry.interval>>
    ELSE LET next_run == entry.last_run_at + entry.interval
             remaining == next_run - t
         IN  IF remaining <= 0 THEN <<TRUE, entry.interval>> ELSE <<FALSE, remaining>>

\* tick(): if next_wake is None or remaining < next_wake: next_wake = remaining
UpdateWake(nw, remaining) == IF nw = None \/ remaining < nw THEN remaining ELSE nw

\* return next_wake or 1.0, without the cap
SleepTimeNoCap(nw) == IF nw = None \/ nw = 0 THEN Cap ELSE nw

\* tick(): return min(next_wake or 1.0, 1.0)
SleepTime(nw) == Min(IF nw = None \/ nw = 0 THEN Cap ELSE nw, Cap)

\* the underlying pool takes a submission: there is one and it is not shut down
PoolAccepts == executor_pool # None /\ pools[executor_pool] = "open"

\* futures of pool p that have not finished
Unfinished(p) == {i \in 1..Len(futures) : futures[i].pool = p /\ futures[i].st = "running"}

\* locals of tick() at its entry: the iterator's position and the dict size it
\* began with, next_wake, remaining; and the record of this tick: the remaining
\* each is_due() reported, the entries whose submission raised
TickLocals == [it |-> 0, size |-> 0, next_wake |-> None, remaining |-> 0,
               item |-> 0, rem |-> <<>>, raised |-> {}]

\* the newest item is taken first
QueueGetLast(q) == <<q[Len(q)], SubSeq(q, 1, Len(q) - 1)>>

\* Queue.get_nowait on a queue that is not empty: <<the item, the queue left>>
QueueGet(q) == <<Head(q), Tail(q)>>

\* the first loop slot no thread is in
FreeLoop == CHOOSE l \in Loops : pc[l] = "none" /\ \A k \in Loops : pc[k] = "none" => l <= k

HasFreeLoop == \E l \in Loops : pc[l] = "none"

\* ChewyTask._ensure_scheduler_initialized(threading)
EnsureScheduler(threading) ==
    IF backend = "none" THEN (IF threading THEN "thread" ELSE "process") ELSE backend

\* ------------------------------------------------------------ Init
\* the registries callers can have built before the loop starts: every entry fresh
FreshEntries ==
    UNION {[1..n -> {TaskEntry(i) : i \in Intervals}] : n \in 0..MaxEntries}

\* the state after construction, with the given registry, loop 1 at position loop1
InitWith(entries, loop1, bk) ==
    /\ executor_pool = None
    /\ pools = <<>>
    /\ futures = <<>>
    /\ scheduled_entries = entries
    /\ instant_queue = <<>>
    /\ running = FALSE
    /\ started = FALSE
    /\ backend = bk
    /\ now = 0
    /\ pc = [t \in Threads |-> IF t = Main THEN "idle" ELSE IF t = 1 THEN loop1 ELSE "none"]
    /\ ret = [t \in Threads |-> "none"]
    /\ tick = [l \in Loops |-> TickLocals]
    /\ wake_at = [l \in Loops |-> 0]
    /\ wait_pool = [t \in Threads |-> None]
    /\ calls = 0
    /\ fail_budget = MaxSubmitFailures
    /\ call_running = FALSE
    /\ exec_shutdown_done = FALSE
    /\ sched_shutdown_seen = FALSE
    /\ shutdown_returned = 0
    /\ run_entered = FALSE
    /\ last_call = "returned"

\* a ChewyTask whose scheduler is not made yet, or a Scheduler over a thread executor
Init == \E bk \in {"none", "thread"} : InitWith(<<>>, "none", bk)

\* a new ChewyTask: _scheduler and _executor are None, nothing registered
InitApp == InitWith(<<>>, "none", "none")

\* a Scheduler with its registry filled, a thread entering run()
InitTick == \E entries \in FreshEntries : InitWith(entries, "run_start", "thread")

\* ------------------------------------------------------------ Executor
\* BaseExecutor.submit, lines 52-53 with start()'s own test: is there a pool?
SubmitCheck(t) ==
    /\ pc[t] = "sub_check"
    /\ pc' = [pc EXCEPT ![t] = IF executor_pool = None THEN "start_create" ELSE "pool_submit"]
    /\ UNCHANGED <<objVars, now, ret, tick, wake_at, wait_pool, calls, fail_budget,
                   call_running, exec_shutdown_done, sched_shutdown_seen,
                   shutdown_returned, run_entered, last_call>>

\* BaseExecutor.start: self._executor = self._create_executor(), by a thread that
\* found no pool (another thread may have created one since)
StartCreate(t) ==
    /\ pc[t] = "start_create"
    /\ Len(pools) < MaxPools
    /\ pools' = Append(pools, "open")
    /\ executor_pool' = Len(pools) + 1
    /\ pc' = [pc EXCEPT ![t] = "pool_submit"]
    /\ UNCHANGED <<futures, scheduled_entries, instant_queue, running, started, backend,
                   now, ret, tick, wake_at, wait_pool, calls, fail_budget, call_running,
                   exec_shutdown_done, sched_shutdown_seen, shutdown_returned,
                   run_entered, last_call>>

\* the outcomes of self._executor.submit(fn, ...): it raises when there is no pool
\* (AttributeError on None) or the pool is shut down (RuntimeError); an open pool may
\* refuse too (a worker that cannot be started, a broken process pool)
SubmitOutcomes ==
    IF ~PoolAccepts THEN {FALSE}
    ELSE IF fail_budget > 0 THEN {TRUE, FALSE} ELSE {TRUE}

\* the future a pool returns for a submission of thread t
NewFuture(t) ==
    [kind |-> ret[t],
     entry |-> IF ret[t] = "entry" THEN tick[t].it
               ELSE IF ret[t] = "drain" THEN tick[t].item ELSE 0,
     pool |-> executor_pool, st |-> "running"]

\* last_run_at is written before the submission, whatever comes of it
MarkRunAlways(entries, i, ok) == [entries EXCEPT ![i].last_run_at = now]

\* Scheduler.tick line 86: entry.last_run_at = time.time(), after a submission
\* that did not raise
MarkRun(entries, i, ok) ==
    IF ok THEN [entries EXCEPT ![i].last_run_at = now] ELSE entries

\* a submission that raises in tick() escapes to run(), no try around it
SubmitRaisesTo(t, ok) ==
    IF ~ok /\ t # Main THEN "except"
    ELSE IF ret[t] = "entry" THEN "tick_iter"
    ELSE IF ret[t] = "drain" THEN "drain" ELSE "idle"

\* where Executor.submit's caller goes on, the submission accepted or raised:
\* tick's try/except logs a raise and carries on with the next entry (lines
\* 82-88) or the next queued item (lines 100-104); submit_instant_task returns
\* or raises to the caller
SubmitReturnsTo(t, ok) ==
    IF ret[t] = "entry" THEN "tick_iter"
    ELSE IF ret[t] = "drain" THEN "drain" ELSE "idle"

\* BaseExecutor.submit, lines 55-60, and what its caller does with the outcome:
\* tick's entry loop (lines 84-92), tick's drain (lines 100-104),
\* submit_instant_task (lines 63-65)
PoolSubmit(t) ==
    /\ pc[t] = "pool_submit"
    /\ Len(futures) < MaxFutures \/ ~PoolAccepts
    /\ \E ok \in SubmitOutcomes :
        /\ futures' = IF ok THEN Append(futures, NewFuture(t)) ELSE futures
        /\ fail_budget' = IF PoolAccepts /\ ~ok THEN fail_budget - 1 ELSE fail_budget
        /\ pc' = [pc EXCEPT ![t] = SubmitReturnsTo(t, ok)]
        /\ IF ret[t] = "entry"
           THEN /\ scheduled_entries' = MarkRun(scheduled_entries, tick[t].it, ok)
                /\ tick' = [tick EXCEPT ![t].next_wake =
                                UpdateWake(tick[t].next_wake, tick[t].remaining),
                                         ![t].raised =
                                IF ok THEN @ ELSE @ \cup {tick[t].it}]
                /\ UNCHANGED last_call
           ELSE IF ret[t] = "drain"
           THEN /\ tick' = [tick EXCEPT ![t].item = 0]
                /\ UNCHANGED <<scheduled_entries, last_call>>
           ELSE /\ last_call' = IF ok THEN "future" ELSE "raised"
                /\ UNCHANGED <<scheduled_entries, tick>>
    /\ ret' = [ret EXCEPT ![t] = "none"]
    /\ call_running' = IF t = Main THEN FALSE ELSE call_running
    /\ UNCHANGED <<executor_pool, pools, instant_queue, running, started, backend, now,
                   wake_at, wait_pool, calls, exec_shutdown_done,
                   sched_shutdown_seen, shutdown_returned, run_entered>>

\* a shutdown call of kind k returns to thread t
ShutdownReturns(t, kind) ==
    /\ pc' = [pc EXCEPT ![t] = IF t = Main THEN "idle" ELSE "none"]
    /\ ret' = [ret EXCEPT ![t] = "none"]
    /\ started' = IF kind = "app_shutdown" THEN FALSE ELSE started
    /\ shutdown_returned' = IF kind = "exec_shutdown" THEN shutdown_returned
                            ELSE Min(shutdown_returned + 1, 2)
    /\ run_entered' = IF t = Main THEN FALSE ELSE run_entered
    /\ exec_shutdown_done' = TRUE
    /\ last_call' = IF t = Main THEN "returned" ELSE last_call

\* BaseExecutor.shutdown, lines 69-73: nothing to do without a pool; else the pool
\* stops accepting and the caller waits for its work (wait=True)
ExecutorShutdown(t, kind) ==
    IF executor_pool = None
    THEN /\ ShutdownReturns(t, kind)
         /\ UNCHANGED <<executor_pool, pools, wait_pool>>
    ELSE /\ pools' = [pools EXCEPT ![executor_pool] = "shut"]
         /\ wait_pool' = [wait_pool EXCEPT ![t] = executor_pool]
         /\ pc' = [pc EXCEPT ![t] = "shut_wait"]
         /\ ret' = [ret EXCEPT ![t] = kind]
         /\ last_call' = IF t = Main THEN "pending" ELSE last_call
         /\ run_entered' = IF t = Main THEN FALSE ELSE run_entered
         /\ UNCHANGED <<executor_pool, started, shutdown_returned, exec_shutdown_done>>

\* the wait returns and the pool reference is kept: no finally clause
ShutWaitKeepsPool(t) ==
    /\ pc[t] = "shut_wait"
    /\ Unfinished(wait_pool[t]) = {}
    /\ wait_pool' = [wait_pool EXCEPT ![t] = None]
    /\ ShutdownReturns(t, ret[t])
    /\ UNCHANGED <<executor_pool, pools, futures, scheduled_entries, instant_queue,
                   running, backend, now, tick, wake_at, calls, fail_budget,
                   call_running, sched_shutdown_seen>>

\* BaseExecutor.shutdown, lines 73-77: the pool's work is done, the wait returns,
\* and finally: self._executor = None
ShutWait(t) ==
    /\ pc[t] = "shut_wait"
    /\ Unfinished(wait_pool[t]) = {}
    /\ executor_pool' = None
    /\ wait_pool' = [wait_pool EXCEPT ![t] = None]
    /\ ShutdownReturns(t, ret[t])
    /\ UNCHANGED <<pools, futures, scheduled_entries, instant_queue, running, backend,
                   now, tick, wake_at, calls, fail_budget, call_running,
                   sched_shutdown_seen>>

\* what the future of a task holds once Task.run has ended in the worker: the
\* value the body returned, or the exception it raised (Task.run logs and re-raises,
\* the pool sets it on the future)
Outcome(raises) == IF raises THEN "failed" ELSE "done"

\* the exception of a task body comes out in the thread of the loop
TaskCompleteInLoop(i, raises) ==
    /\ i \in 1..Len(futures)
    /\ futures[i].st = "running"
    /\ futures' = [futures EXCEPT ![i].st = Outcome(raises)]
    /\ running' = IF raises THEN FALSE ELSE running
    /\ UNCHANGED <<executor_pool, pools, scheduled_entries, instant_queue,
                   started, backend, now, pc, ret, tick, wake_at, wait_pool, calls,
                   fail_budget, call_running, exec_shutdown_done, sched_shutdown_seen,
                   shutdown_returned, run_entered, last_call>>

\* a worker runs the task of future i to its end: Task.run returns or raises
TaskComplete(i, raises) ==
    /\ i \in 1..Len(futures)
    /\ futures[i].st = "running"
    /\ futures' = [futures EXCEPT ![i].st = Outcome(raises)]
    /\ UNCHANGED <<executor_pool, pools, scheduled_entries, instant_queue, running,
                   started, backend, now, pc, ret, tick, wake_at, wait_pool, calls,
                   fail_budget, call_running, exec_shutdown_done, sched_shutdown_seen,
                   shutdown_returned, run_entered, last_call>>

\* ------------------------------------------------------------ the caller
CanCall == pc[Main] = "idle" /\ calls < MaxCalls

\* Scheduler.add_scheduled_task(TaskEntry(task, IntervalSchedule(interval))), called
\* directly or by the @app.task(schedule=...) / @app.schedule decorators, which
\* first make sure the scheduler exists
AddScheduledTask(interval, viaApp) ==
    /\ CanCall
    /\ viaApp \/ backend # "none"
    /\ IF IntervalSchedule(interval)
       THEN /\ Len(scheduled_entries) < MaxEntries
            /\ backend' = EnsureScheduler(TRUE)
            /\ scheduled_entries' = Append(scheduled_entries, TaskEntry(interval))
            /\ last_call' = "returned"
       ELSE /\ last_call' = "ValueError"
            /\ UNCHANGED <<backend, scheduled_entries>>
    /\ calls' = calls + 1
    /\ UNCHANGED <<executor_pool, pools, futures, instant_queue, running, started, now,
                   pc, ret, tick, wake_at, wait_pool, fail_budget, call_running,
                   exec_shutdown_done, sched_shutdown_seen, shutdown_returned, run_entered>>

\* the task is put on the instant queue as well as handed to the executor
SubmitInstantTaskQueued(viaApp) ==
    /\ CanCall
    /\ viaApp \/ backend # "none"
    /\ backend' = EnsureScheduler(TRUE)
    /\ call_running' = running
    /\ instant_queue' = Append(instant_queue, 1)
    /\ pc' = [pc EXCEPT ![Main] = "sub_check"]
    /\ ret' = [ret EXCEPT ![Main] = "instant"]
    /\ calls' = calls + 1
    /\ last_call' = "pending"
    /\ UNCHANGED <<executor_pool, pools, futures, scheduled_entries,
                   running, started, now, tick, wake_at, wait_pool, fail_budget,
                   exec_shutdown_done, sched_shutdown_seen, shutdown_returned, run_entered>>

\* submit_instant_task that only puts the task on instant_queue and returns,
\* leaving the submission to the drain of the next tick()
SubmitInstantTaskViaQueue(viaApp) ==
    /\ CanCall
    /\ viaApp \/ backend # "none"
    /\ backend' = EnsureScheduler(TRUE)
    /\ instant_queue' = Append(instant_queue, 1)
    /\ calls' = calls + 1
    /\ last_call' = "returned"
    /\ UNCHANGED <<executor_pool, pools, futures, scheduled_entries,
                   running, started, now, pc, ret, tick, wake_at, wait_pool, fail_budget,
                   call_running, exec_shutdown_done, sched_shutdown_seen,
                   shutdown_returned, run_entered>>

\* Scheduler.submit_instant_task, called directly or through ChewyTask.submit_task
\* (Task.delay): straight into Executor.submit
SubmitInstantTask(viaApp) ==
    /\ CanCall
    /\ viaApp \/ backend # "none"
    /\ backend' = EnsureScheduler(TRUE)
    /\ call_running' = running
    /\ pc' = [pc EXCEPT ![Main] = "sub_check"]
    /\ ret' = [ret EXCEPT ![Main] = "instant"]
    /\ calls' = calls + 1
    /\ last_call' = "pending"
    /\ UNCHANGED <<executor_pool, pools, futures, scheduled_entries, instant_queue,
                   running, started, now, tick, wake_at, wait_pool, fail_budget,
                   exec_shutdown_done, sched_shutdown_seen, shutdown_returned, run_entered>>

\* delay on a task without an application returns None and does nothing
TaskDelaySilent(has_app) ==
    IF has_app
    THEN SubmitInstantTask(TRUE)
    ELSE /\ CanCall
         /\ calls' = calls + 1
         /\ last_call' = "returned"
         /\ UNCHANGED <<objVars, now, pc, ret, tick, wake_at, wait_pool, fail_budget,
                        call_running, exec_shutdown_done, sched_shutdown_seen,
                        shutdown_returned, run_entered>>

\* Task.delay: RuntimeError when self.app is None (a task made by @app.schedule),
\* else self.app.submit_task(self, ...)
TaskDelay(has_app) ==
    IF has_app
    THEN SubmitInstantTask(TRUE)
    ELSE /\ CanCall
         /\ calls' = calls + 1
         /\ last_call' = "not_bound"
         /\ UNCHANGED <<objVars, now, pc, ret, tick, wake_at, wait_pool, fail_budget,
                        call_running, exec_shutdown_done, sched_shutdown_seen,
                        shutdown_returned, run_entered>>

\* Scheduler.shutdown: self.running = False, then self.executor.shutdown(wait=True)
SchedulerShutdown(t, kind) ==
    /\ running' = FALSE
    /\ sched_shutdown_seen' = TRUE
    /\ ExecutorShutdown(t, kind)

\* Scheduler.shutdown called from outside the loop
ShutdownCall ==
    /\ CanCall
    /\ backend # "none"
    /\ SchedulerShutdown(Main, "sched_shutdown")
    /\ calls' = calls + 1
    /\ UNCHANGED <<futures, scheduled_entries, instant_queue, backend, now, tick,
                   wake_at, fail_budget, call_running>>

\* ChewyTask.shutdown: the scheduler's shutdown if there is one, then _started = False
AppShutdown ==
    /\ CanCall
    /\ IF backend # "none"
       THEN SchedulerShutdown(Main, "app_shutdown")
       ELSE /\ started' = FALSE
            /\ last_call' = "returned"
            /\ UNCHANGED <<executor_pool, pools, running, pc, ret, wait_pool,
                           exec_shutdown_done, sched_shutdown_seen, shutdown_returned,
                           run_entered>>
    /\ calls' = calls + 1
    /\ UNCHANGED <<futures, scheduled_entries, instant_queue, backend, now, tick,
                   wake_at, fail_budget, call_running>>

\* BaseExecutor.shutdown called on the executor itself
ExecutorShutdownCall ==
    /\ CanCall
    /\ backend # "none"
    /\ ExecutorShutdown(Main, "exec_shutdown")
    /\ calls' = calls + 1
    /\ UNCHANGED <<futures, scheduled_entries, instant_queue, running, backend, now,
                   tick, wake_at, fail_budget, call_running, sched_shutdown_seen>>

\* a thread enters Scheduler.run
Spawn == [pc EXCEPT ![FreeLoop] = "run_start"]

\* Scheduler.run() called on a thread of its own, or Scheduler.start_background():
\* with use_thread a thread is started on run; without, a child process runs a copy
\* of the scheduler and this scheduler's fields stay as they are
StartLoop(use_thread) ==
    /\ CanCall
    /\ backend # "none"
    /\ IF use_thread
       THEN HasFreeLoop /\ pc' = Spawn
       ELSE pc' = pc
    /\ calls' = calls + 1
    /\ last_call' = "returned"
    /\ UNCHANGED <<objVars, now, ret, tick, wake_at, wait_pool, fail_budget,
                   call_running, exec_shutdown_done, sched_shutdown_seen,
                   shutdown_returned, run_entered>>

\* ChewyTask.start(auto, threading): nothing when already started; else the
\* scheduler is made sure of, _started is set, and the loop is run or spawned
AppStart(auto, threading) ==
    /\ CanCall
    /\ IF started
       THEN UNCHANGED <<backend, started, pc>>
       ELSE /\ backend' = EnsureScheduler(threading)
            /\ started' = TRUE
            /\ IF auto /\ ~threading
               THEN pc' = pc
               ELSE HasFreeLoop /\ pc' = Spawn
    /\ calls' = calls + 1
    /\ last_call' = "returned"
    /\ UNCHANGED <<executor_pool, pools, futures, scheduled_entries, instant_queue,
                   running, now, ret, tick, wake_at, wait_pool, fail_budget,
                   call_running, exec_shutdown_done, sched_shutdown_seen,
                   shutdown_returned, run_entered>>

\* ------------------------------------------------------------ the loop
loopFrame == <<executor_pool, pools, futures, instant_queue, started, backend, now,
               wait_pool, calls, fail_budget, call_running, last_call>>

\* Scheduler.run: self.running = True
RunStart(l) ==
    /\ pc[l] = "run_start"
    /\ running' = TRUE
    /\ run_entered' = (pc[Main] = "shut_wait")
    /\ pc' = [pc EXCEPT ![l] = "loop_check"]
    /\ UNCHANGED <<loopFrame, scheduled_entries, ret, tick, wake_at, exec_shutdown_done,
                   sched_shutdown_seen, shutdown_returned>>

\* Scheduler.run: while self.running: enter tick() (next_wake = None, the iteration
\* over scheduled_entries.values() begins); else leave the loop for finally
LoopCheck(l) ==
    /\ pc[l] = "loop_check"
    /\ IF running
       THEN /\ tick' = [tick EXCEPT ![l] = [TickLocals EXCEPT !.size = Len(scheduled_entries)]]
            /\ pc' = [pc EXCEPT ![l] = "tick_iter"]
       ELSE /\ pc' = [pc EXCEPT ![l] = "finally"]
            /\ UNCHANGED tick
    /\ UNCHANGED <<loopFrame, scheduled_entries, running, ret, wake_at,
                   exec_shutdown_done, sched_shutdown_seen, shutdown_returned, run_entered>>

\* a tick() that holds an entry back while an earlier execution of it is running
TickIterExclusive(l) ==
    /\ pc[l] = "tick_iter"
    /\ IF Len(scheduled_entries) # tick[l].size
       THEN /\ pc' = [pc EXCEPT ![l] = "except"]
            /\ tick' = [tick EXCEPT ![l] = TickLocals]
            /\ UNCHANGED ret
       ELSE IF tick[l].it < tick[l].size
       THEN LET i == tick[l].it + 1
                r == is_due(scheduled_entries[i], now)
                busy == \E f \in 1..Len(futures) :
                            /\ futures[f].kind = "entry"
                            /\ futures[f].entry = i
                            /\ futures[f].st = "running"
            IN  IF r[1] /\ ~busy
                THEN /\ tick' = [tick EXCEPT ![l].it = i, ![l].remaining = r[2],
                                             ![l].rem = Append(@, r[2])]
                     /\ pc' = [pc EXCEPT ![l] = "sub_check"]
                     /\ ret' = [ret EXCEPT ![l] = "entry"]
                ELSE /\ tick' = [tick EXCEPT ![l].it = i, ![l].remaining = r[2],
                                             ![l].rem = Append(@, r[2]),
                                             ![l].next_wake = UpdateWake(tick[l].next_wake, r[2])]
                     /\ UNCHANGED <<pc, ret>>
       ELSE /\ pc' = [pc EXCEPT ![l] = "drain"]
            /\ UNCHANGED <<tick, ret>>
    /\ UNCHANGED <<loopFrame, scheduled_entries, running, wake_at, exec_shutdown_done,
                   sched_shutdown_seen, shutdown_returned, run_entered>>

\* Scheduler.tick, lines 78-92, one turn of the for loop: the dict iterator raises
\* RuntimeError when the dict's size changed since the iteration began; else it
\* yields the next entry, is_due() is evaluated, and a due entry goes to the executor
TickIter(l) ==
    /\ pc[l] = "tick_iter"
    /\ IF Len(scheduled_entries) # tick[l].size
       THEN /\ pc' = [pc EXCEPT ![l] = "except"]
            /\ tick' = [tick EXCEPT ![l] = TickLocals]
            /\ UNCHANGED ret
       ELSE IF tick[l].it < tick[l].size
       THEN LET i == tick[l].it + 1
                r == is_due(scheduled_entries[i], now)
            IN  IF r[1]
                THEN /\ tick' = [tick EXCEPT ![l].it = i, ![l].remaining = r[2],
                                             ![l].rem = Append(@, r[2])]
                     /\ pc' = [pc EXCEPT ![l] = "sub_check"]
                     /\ ret' = [ret EXCEPT ![l] = "entry"]
                ELSE /\ tick' = [tick EXCEPT ![l].it = i, ![l].remaining = r[2],
                                             ![l].rem = Append(@, r[2]),
                                             ![l].next_wake = UpdateWake(tick[l].next_wake, r[2])]
                     /\ UNCHANGED <<pc, ret>>
       ELSE /\ pc' = [pc EXCEPT ![l] = "drain"]
            /\ UNCHANGED <<tick, ret>>
    /\ UNCHANGED <<loopFrame, scheduled_entries, running, wake_at, exec_shutdown_done,
                   sched_shutdown_seen, shutdown_returned, run_entered>>

\* Scheduler.tick, lines 95-107: get_nowait() until Empty, each item to the
\* executor; then return min(next_wake or 1.0, 1.0), which run() sleeps
Drain(l) ==
    /\ pc[l] = "drain"
    /\ IF instant_queue = <<>>
       THEN /\ tick' = [tick EXCEPT ![l] = TickLocals]
            /\ wake_at' = [wake_at EXCEPT ![l] = now + SleepTime(tick[l].next_wake)]
            /\ pc' = [pc EXCEPT ![l] = "sleep"]
            /\ UNCHANGED <<instant_queue, ret>>
       ELSE /\ tick' = [tick EXCEPT ![l].item = QueueGet(instant_queue)[1]]
            /\ instant_queue' = QueueGet(instant_queue)[2]
            /\ pc' = [pc EXCEPT ![l] = "sub_check"]
            /\ ret' = [ret EXCEPT ![l] = "drain"]
            /\ UNCHANGED wake_at
    /\ UNCHANGED <<executor_pool, pools, futures, scheduled_entries, running, started,
                   backend, now, wait_pool, calls, fail_budget, call_running,
                   exec_shutdown_done, sched_shutdown_seen, shutdown_returned,
                   run_entered, last_call>>

\* Scheduler.run: time.sleep(sleep_time) returns, not before its time
Sleep(l) ==
    /\ pc[l] = "sleep"
    /\ now >= wake_at[l]
    /\ pc' = [pc EXCEPT ![l] = "loop_check"]
    /\ wake_at' = [wake_at EXCEPT ![l] = 0]
    /\ UNCHANGED <<loopFrame, scheduled_entries, running, ret, tick,
                   exec_shutdown_done, sched_shutdown_seen, shutdown_returned, run_entered>>

\* the error is logged and the loop goes on with the next tick
ExceptContinues(l) ==
    /\ pc[l] = "except"
    /\ pc' = [pc EXCEPT ![l] = "loop_check"]
    /\ UNCHANGED <<loopFrame, scheduled_entries, running, ret, tick, wake_at,
                   exec_shutdown_done, sched_shutdown_seen, shutdown_returned, run_entered>>

\* Scheduler.run: except Exception: self.running = False
Except(l) ==
    /\ pc[l] = "except"
    /\ running' = FALSE
    /\ pc' = [pc EXCEPT ![l] = "finally"]
    /\ UNCHANGED <<loopFrame, scheduled_entries, ret, tick, wake_at,
                   exec_shutdown_done, sched_shutdown_seen, shutdown_returned, run_entered>>

\* Scheduler.run: finally: self.shutdown()
Finally(l) ==
    /\ pc[l] = "finally"
    /\ SchedulerShutdown(l, "run_finally")
    /\ UNCHANGED <<futures, scheduled_entries, instant_queue, backend, now, tick,
                   wake_at, calls, fail_budget, call_running>>

\* the clock
Advance ==
    /\ now < MaxTime
    /\ now' = now + 1
    /\ UNCHANGED <<objVars, pc, ret, tick, wake_at, wait_pool, calls, fail_budget,
                   call_running, exec_shutdown_done, sched_shutdown_seen,
                   shutdown_returned, run_entered, last_call>>

\* code outside the package puts an item on Scheduler.instant_queue
QueuePut ==
    /\ Len(instant_queue) < MaxQueued
    /\ backend # "none"
    /\ \E x \in QueueItems : instant_queue' = Append(instant_queue, x)
    /\ UNCHANGED <<executor_pool, pools, futures, scheduled_entries, running, started,
                   backend, now, pc, ret, tick, wake_at, wait_pool, calls, fail_budget,
                   call_running, exec_shutdown_done, sched_shutdown_seen,
                   shutdown_returned, run_entered, last_call>>

\* ------------------------------------------------------------ specification
\* the steps of Executor.submit and Executor.shutdown, by any thread
ExecutorStep ==
    \E t \in Threads : SubmitCheck(t) \/ StartCreate(t) \/ PoolSubmit(t)

\* the steps of tick() and of the loop around it
TickStep == \E l \in Loops : LoopCheck(l) \/ TickIter(l) \/ Drain(l) \/ Sleep(l)

\* the loop leaves: except, finally
LeaveStep == \E l \in Loops : Except(l) \/ Finally(l)

Environment ==
    \/ \E i \in 1..MaxFutures, raises \in BOOLEAN : TaskComplete(i, raises)
    \/ Advance

\* the public operations on a scheduler that need no loop
CallStep ==
    \/ SubmitInstantTask(FALSE)
    \/ \E has_app \in BOOLEAN : TaskDelay(has_app)
    \/ ShutdownCall
    \/ AppShutdown
    \/ ExecutorShutdownCall

RegisterStep == \E i \in IntervalArgs, viaApp \in BOOLEAN : AddScheduledTask(i, viaApp)

StartStep ==
    \/ \E use_thread \in BOOLEAN : StartLoop(use_thread)
    \/ \E auto \in BOOLEAN, threading \in BOOLEAN : AppStart(auto, threading)
    \/ \E l \in Loops : RunStart(l)

Next ==
    \/ CallStep
    \/ RegisterStep
    \/ StartStep
    \/ ExecutorStep
    \/ \E t \in Threads : ShutWait(t)
    \/ TickStep
    \/ LeaveStep
    \/ Environment

\* every public operation, every interleaving
Spec == Init /\ [][Next]_vars

\* one loop over a registry filled beforehand; the backend may refuse, code
\* outside may put on the queue
NextTick ==
    \/ \E l \in Loops : RunStart(l)
    \/ ExecutorStep
    \/ TickStep
    \/ Environment
    \/ QueuePut

SpecTick == InitTick /\ [][NextTick]_vars

\* the same operations on an application built by ChewyTask()
SpecApp == InitApp /\ [][Next]_vars

\* ------------------------------------------------------------ properties
\* steps of a loop thread, told by its positions
\* tick() evaluates is_due() on its next entry
EvalStep(l) == pc[l] = "tick_iter" /\ tick'[l].it = tick[l].it + 1

\* tick() returns its sleep duration to run()
TickReturns(l) == pc[l] = "drain" /\ pc'[l] = "sleep"

\* the submission of the entry tick() is at raises
EntrySubmitRaises(l) ==
    pc[l] = "pool_submit" /\ ret[l] = "entry" /\ pc'[l] # "pool_submit"
        /\ Len(futures') = Len(futures)

\* a call of Scheduler.shutdown returns to the caller / to run()'s finally
CallerShutdownReturns ==
    \/ (ShutdownCall \/ AppShutdown) /\ pc'[Main] = "idle"
    \/ pc[Main] = "shut_wait" /\ ret[Main] \in {"sched_shutdown", "app_shutdown"}
          /\ pc'[Main] = "idle"

LoopShutdownReturns(l) == pc[l] \in {"finally", "shut_wait"} /\ pc'[l] = "none"

MinOf(seq) == CHOOSE m \in {seq[i] : i \in 1..Len(seq)} : \A i \in 1..Len(seq) : m <= seq[i]

\* C1: once a call of Executor.shutdown has returned, the pool reference stays
\* cleared (no pool is created again) and no submission is accepted any more.
C1_NoSubmitAfterShutdown ==
    [][exec_shutdown_done =>
          (executor_pool' = None /\ Len(pools') = Len(pools)
              /\ Len(futures') = Len(futures))]_vars

\* C2: an instant submission whose call began while the scheduler was not running
\* ends in an error and hands nothing to the executor.
C2_InstantNeedsRunning ==
    [][(pc[Main] = "pool_submit" /\ pc'[Main] = "idle" /\ ~call_running) =>
          (last_call' = "raised" /\ futures' = futures)]_vars

\* C3: once Scheduler.shutdown has been called, running is false in every later
\* state.
C3_StoppedIsTerminal == sched_shutdown_seen => ~running

\* C4: once a call of Scheduler.shutdown has returned, every task the executor
\* accepted has completed: none is running, none is accepted afterwards.
C4_ShutdownDrains ==
    shutdown_returned > 0 => \A i \in 1..Len(futures) : futures[i].st # "running"

C6_RegistrationNeverBreaksTick == \A l \in Loops : pc[l] # "except"

\* C7: a submission of a due entry that raises leaves tick() in its loop: the
\* entry keeps its fields, the iteration goes on; every entry found due is handed
\* to the executor; and a tick in which a submission raised returns a sleep
\* duration in 1..Cap after evaluating every entry and emptying the queue.
C7_SubmitFailureIsolated ==
    [][\A l \in Loops :
          /\ EntrySubmitRaises(l) =>
                (pc'[l] = "tick_iter" /\ running' = running
                    /\ scheduled_entries' = scheduled_entries
                    /\ tick'[l].it = tick[l].it)
          /\ (EvalStep(l) /\ is_due(scheduled_entries[tick'[l].it], now)[1]) =>
                (pc'[l] = "sub_check" /\ ret'[l] = "entry")
          /\ (TickReturns(l) /\ tick[l].raised # {}) =>
                (tick[l].it = tick[l].size /\ instant_queue = <<>>
                    /\ wake_at'[l] - now \in 1..Cap
                    /\ running' = running)]_vars

\* C7 witness: tick() is about to return; the submission of entry 1 raised, entry 2
\* was dispatched after it and a queued item was submitted
C7_Witness ==
    \E l \in Loops :
        /\ pc[l] = "drain" /\ instant_queue = <<>>
        /\ tick[l].raised = {1} /\ tick[l].it = 2
        /\ scheduled_entries[2].last_run_at # None
        /\ \E i \in 1..Len(futures) : futures[i].kind = "drain"

\* C8: while no submission is refused, the loop reaches the next due time of every
\* dispatched entry without sleeping past it: it never sleeps beyond
\* last_run_at + interval.
C8_NeverSleepsPastDue ==
    \A l \in Loops :
        (pc[l] = "sleep" /\ fail_budget = MaxSubmitFailures) =>
            \A i \in 1..Len(scheduled_entries) :
                scheduled_entries[i].last_run_at # None =>
                    wake_at[l] <= scheduled_entries[i].last_run_at
                                      + scheduled_entries[i].interval

\* C9: tick() returns min(m, Cap), m the least remaining is_due() reported in this
\* tick, and Cap when the registry is empty; the result is in 1..Cap.
C9_SleepIsCappedMinimum ==
    [][\A l \in Loops :
          TickReturns(l) =>
              LET st == wake_at'[l] - now
                  rem == tick[l].rem
              IN  /\ st = IF rem = <<>> THEN Cap ELSE Min(MinOf(rem), Cap)
                  /\ st > 0 /\ st <= Cap]_vars

\* C9 witness: tick() is about to return 1, the smaller of the remaining 1 and 2
C9_Witness ==
    \E l \in Loops :
        /\ pc[l] = "drain" /\ instant_queue = <<>>
        /\ tick[l].rem = <<1, 2>>
        /\ SleepTime(tick[l].next_wake) = 1

\* C10: is_due() at time now answers (True, interval) for an entry never run or
\* with now >= last_run_at + interval, else (False, last_run_at + interval - now),
\* and leaves every entry as it was.
C10_IsDue ==
    [][\A l \in Loops :
          EvalStep(l) =>
              LET e == scheduled_entries[tick'[l].it]
                  due == (pc'[l] = "sub_check")
                  remaining == tick'[l].remaining
                  next == e.last_run_at + e.interval
              IN  /\ e.last_run_at = None => (due /\ remaining = e.interval)
                  /\ (e.last_run_at # None /\ now >= next) =>
                        (due /\ remaining = e.interval)
                  /\ (e.last_run_at # None /\ now < next) =>
                        (~due /\ remaining = next - now)
                  /\ scheduled_entries' = scheduled_entries]_vars

\* C10 witness: is_due() has just answered (False, 2) for an entry dispatched before
C10_Witness ==
    \E l \in Loops :
        /\ pc[l] = "tick_iter" /\ tick[l].it >= 1
        /\ LET e == scheduled_entries[tick[l].it]
           IN  /\ e.last_run_at # None
               /\ now < e.last_run_at + e.interval
               /\ tick[l].remaining = e.last_run_at + e.interval - now
               /\ tick[l].remaining = 2

\* a worker ends the task of future i, the body having raised / returned
TaskFails(i) ==
    i \in 1..Len(futures) /\ futures[i].st = "running" /\ futures'[i].st = "failed"

TaskReturns(i) ==
    i \in 1..Len(futures) /\ futures[i].st = "running" /\ futures'[i].st = "done"

\* C11: a task body that raises leaves its error on the handle of its submission
\* and touches nothing else: running, the loop threads, the registry and the pool
\* stay as they are (a body that returns leaves its value on the handle); a handle
\* once resolved keeps what it holds; and an entry is dispatched when found due
\* whatever became of its earlier tasks.
C11_TaskErrorOnHandle ==
    [][/\ \A i \in 1..MaxFutures :
            (TaskFails(i) \/ TaskReturns(i)) =>
                /\ futures' = [futures EXCEPT
                                  ![i].st = IF TaskFails(i) THEN "failed" ELSE "done"]
                /\ UNCHANGED <<running, pc, ret, tick, scheduled_entries,
                               instant_queue, executor_pool, pools, last_call>>
       /\ \A i \in 1..Len(futures) :
            futures[i].st # "running" => futures'[i].st = futures[i].st
       /\ \A l \in Loops :
            (EvalStep(l) /\ is_due(scheduled_entries[tick'[l].it], now)[1]) =>
                (pc'[l] = "sub_check" /\ ret'[l] = "entry")]_vars

\* C11 witness: the task of an entry failed, the scheduler is running and the same
\* entry has been dispatched again
C11_Witness ==
    /\ running
    /\ \E i, j \in 1..Len(futures) :
          /\ i < j
          /\ futures[i].kind = "entry" /\ futures[j].kind = "entry"
          /\ futures[i].entry = futures[j].entry
          /\ futures[i].st = "failed"

\* the caller's instant submission returns a handle
InstantReturns ==
    pc[Main] = "pool_submit" /\ ret[Main] = "instant" /\ pc'[Main] = "idle"
        /\ last_call' = "future"

\* C12: a delay call that returns a handle has put exactly one execution of the
\* task into the pool and nothing on the queue; no other step creates an execution
\* of an instant task; an execution ends once and is never dropped or run again.
C12_DelayExactlyOnce ==
    [][/\ InstantReturns =>
            /\ futures' = Append(futures, [kind |-> "instant", entry |-> 0,
                                           pool |-> executor_pool, st |-> "running"])
            /\ instant_queue' = instant_queue
       /\ (Len(futures') # Len(futures) /\ ~InstantReturns) =>
            /\ Len(futures') = Len(futures) + 1
            /\ futures'[Len(futures')].kind = "entry"
       /\ \A i \in 1..Len(futures) :
            /\ futures'[i].kind = futures[i].kind
            /\ futures[i].st # "running" => futures'[i].st = futures[i].st
       /\ (pc[Main] = "idle" /\ pc'[Main] = "sub_check") =>
            instant_queue' = instant_queue]_vars

\* C12 witness: a background loop is running and two delay calls have been
\* executed, once each
C12_Witness ==
    /\ running /\ started
    /\ \E l \in Loops : pc[l] = "sleep"
    /\ Cardinality({i \in 1..Len(futures) : futures[i].kind = "instant"}) = 2
    /\ \A i \in 1..Len(futures) : futures[i].kind = "instant" /\ futures[i].st = "done"
    /\ last_call = "future"
    /\ instant_queue = <<>>

\* C14: delay on a task with no application raises and leaves the executor, its
\* pool, the queue and the registry as they were.
C14_DelayWithoutAppRaises ==
    [][TaskDelay(FALSE) =>
          /\ last_call' = "not_bound"
          /\ UNCHANGED <<futures, instant_queue, executor_pool, pools,
                         scheduled_entries, running, pc>>]_vars

\* C14 witness: the last call was a delay on a task registered by @app.schedule; it
\* raised, nothing was submitted
C14_Witness ==
    /\ last_call = "not_bound"
    /\ Len(scheduled_entries) = 1
    /\ futures = <<>> /\ pools = <<>> /\ instant_queue = <<>>
    /\ pc[Main] = "idle"

\* where a thread is while it is in run()'s while loop, tick() included
InLoop ==
    {"loop_check", "tick_iter", "sub_check", "start_create", "pool_submit", "drain",
     "sleep"}

C15_IntervalPositive ==
    [][/\ \A i \in 1..Len(scheduled_entries') : scheduled_entries'[i].interval > 0
       /\ \A l \in Loops : EvalStep(l) => tick'[l].remaining > 0
       /\ \A x \in IntervalArgs, viaApp \in BOOLEAN :
            (x <= 0 /\ AddScheduledTask(x, viaApp)) =>
                (last_call' = "ValueError"
                    /\ UNCHANGED <<scheduled_entries, backend, futures>>)]_vars

\* C15 witness: the last call was refused by IntervalSchedule, the registry holds
\* the entry registered before and is_due has reported its remaining time
C15_Witness ==
    /\ last_call = "ValueError"
    /\ Len(scheduled_entries) = 1
    /\ \E l \in Loops :
          pc[l] = "tick_iter" /\ tick[l].it = 1 /\ tick[l].remaining > 0

\* C16: an executor creates its pool at most once, whatever the interleaving of
\* start, submit and shutdown; here even before any shutdown has returned.
C16_PoolCreatedOnce == ~exec_shutdown_done => Len(pools) <= 1

\* C17: at most one thread is in the tick loop of the scheduler.
C17_SingleLoop == Cardinality({l \in Loops : pc[l] \in InLoop}) <= 1

\* the submission of the entry tick() is at is accepted
EntrySubmitAccepted(l) ==
    pc[l] = "pool_submit" /\ ret[l] = "entry" /\ pc'[l] # "pool_submit"
        /\ Len(futures') = Len(futures) + 1

\* C18: tick() changes the registry in one way only: the last_run_at of an entry
\* it found due becomes the present time when the submission of that entry is
\* accepted. An evaluation changes nothing; a submission that raises changes nothing,
\* and the entry is still due; no entry is added or removed, no interval changes.
C18_LastRunAtFrame ==
    [][/\ \A l \in Loops :
            /\ EntrySubmitAccepted(l) =>
                  /\ is_due(scheduled_entries[tick[l].it], now)[1]
                  /\ scheduled_entries' =
                        [scheduled_entries EXCEPT ![tick[l].it].last_run_at = now]
            /\ EntrySubmitRaises(l) =>
                  /\ scheduled_entries' = scheduled_entries
                  /\ is_due(scheduled_entries'[tick[l].it], now')[1]
            /\ EvalStep(l) => scheduled_entries' = scheduled_entries
       /\ scheduled_entries' # scheduled_entries =>
            \E l \in Loops : EntrySubmitAccepted(l)
       /\ Len(scheduled_entries') = Len(scheduled_entries)
       /\ \A i \in 1..Len(scheduled_entries) :
            scheduled_entries'[i].interval = scheduled_entries[i].interval]_vars

\* C18 witness: the only entry's submission raised in the first tick; a later tick
\* has found it due again, never run, and is about to submit it
C18_Witness ==
    \E l \in Loops :
        /\ pc[l] = "sub_check" /\ ret[l] = "entry"
        /\ Len(scheduled_entries) = 1
        /\ scheduled_entries[1].last_run_at = None
        /\ fail_budget = 0 /\ futures = <<>>
        /\ tick[l].raised = {}
        /\ now >= 1

\* C19: the last_run_at of an entry, once set, is never None again and never
\* decreases, and every write of it sets a time at least the previous last_run_at
\* plus the interval.
C19_LastRunAtMonotone ==
    [][\A i \in 1..Len(scheduled_entries) :
          LET old == scheduled_entries[i].last_run_at
              new == scheduled_entries'[i].last_run_at
          IN  /\ old # None => (new # None /\ new >= old)
              /\ (new # old /\ old # None) =>
                    new >= old + scheduled_entries[i].interval]_vars

\* tick() takes an item off the instant queue / ends the submission of one
DrainPop(l) == pc[l] = "drain" /\ pc'[l] = "sub_check"

DrainSubmitEnds(l) ==
    pc[l] = "pool_submit" /\ ret[l] = "drain" /\ pc'[l] # "pool_submit"

\* C20: in a tick the queue is drained after the loop over the entries is over and
\* the tick never goes back to the entries; items are taken from the head of the
\* queue, one at a time; an accepted item becomes a submission of its own, an item
\* whose submission raises is not put back, and either way the drain goes on; the
\* drain never waits, and tick() returns with the queue empty.
C20_DrainOrder ==
    [][\A l \in Loops :
          /\ DrainPop(l) =>
                /\ tick[l].it = tick[l].size
                /\ instant_queue # <<>>
                /\ tick'[l].item = Head(instant_queue)
                /\ instant_queue' = Tail(instant_queue)
          /\ DrainSubmitEnds(l) =>
                /\ pc'[l] = "drain"
                /\ instant_queue' = instant_queue
                /\ \/ futures' = futures
                   \/ futures' = Append(futures, [kind |-> "drain", entry |-> tick[l].item,
                                                  pool |-> executor_pool, st |-> "running"])
          /\ (pc[l] = "drain" \/ ret[l] = "drain") =>
                /\ pc'[l] \in {"drain", "sub_check", "start_create", "pool_submit", "sleep"}
                /\ ret'[l] # "entry"
          /\ ret[l] = "entry" => tick[l].item = 0
          /\ pc[l] = "drain" => ENABLED Drain(l)
          /\ TickReturns(l) => instant_queue = <<>>]_vars

\* C20 witness: a first tick is about to return: its entry was dispatched, then of
\* two queued items one was refused and dropped and item 1 was submitted
C20_Witness ==
    \E l \in Loops :
        /\ pc[l] = "drain" /\ instant_queue = <<>>
        /\ now = 0 /\ Len(scheduled_entries) = 1
        /\ tick[l].raised = {} /\ fail_budget = 0
        /\ Len(futures) = 2
        /\ futures[1].kind = "entry"
        /\ futures[2].kind = "drain" /\ futures[2].entry = 1

StillRunning(i) ==
    \E f \in 1..Len(futures) :
        futures[f].kind = "entry" /\ futures[f].entry = i /\ futures[f].st = "running"

\* C22: cadence is measured from dispatch and an entry has no mutual exclusion.
\* A tick that evaluates an entry at or after last_run_at + interval while an
\* earlier execution of it is still running sends it to the executor again; the
\* accepted submission adds a running execution, leaves the earlier ones as they
\* are and sets last_run_at to the time of dispatch; the end of an execution
\* changes no entry; and the iteration of tick() is never held back by a running
\* execution.
C22_NoMutualExclusion ==
    [][/\ \A l \in Loops :
            /\ (/\ EvalStep(l)
                /\ StillRunning(tick'[l].it)
                /\ scheduled_entries[tick'[l].it].last_run_at # None
                /\ now >= scheduled_entries[tick'[l].it].last_run_at
                              + scheduled_entries[tick'[l].it].interval)
                  => /\ pc'[l] = "sub_check"
                     /\ ret'[l] = "entry"
                     /\ futures' = futures
            /\ (EntrySubmitAccepted(l) /\ StillRunning(tick[l].it))
                  => /\ futures' = Append(futures, [kind |-> "entry", entry |-> tick[l].it,
                                                    pool |-> executor_pool, st |-> "running"])
                     /\ scheduled_entries'[tick[l].it].last_run_at = now
            /\ pc[l] = "tick_iter" => ENABLED TickIter(l)
       /\ \A i \in 1..Len(futures) :
            (TaskFails(i) \/ TaskReturns(i)) => scheduled_entries' = scheduled_entries]_vars

\* two executions of one entry are running at once, the second dispatched one
\* interval or more after the first
C22_Witness ==
    \E f, g \in 1..Len(futures) :
        /\ f < g
        /\ futures[f].kind = "entry" /\ futures[g].kind = "entry"
        /\ futures[f].entry = futures[g].entry
        /\ futures[f].st = "running" /\ futures[g].st = "running"
        /\ scheduled_entries[futures[g].entry].last_run_at
               >= scheduled_entries[futures[g].entry].interval

\* C23: the call of start(threading = b) that starts the application leaves it
\* with the executor b asks for, the thread pool for TRUE and the process pool
\* for FALSE, whatever was registered or submitted through the application
\* before.
C23_BackendAsRequested ==
    [][\A auto, threading \in BOOLEAN :
          (~started /\ AppStart(auto, threading))
             => backend' = IF threading THEN "thread" ELSE "process"]_vars

====
